---- MODULE Spec2Model ----
(***************************************************************************)
(* A model of the article service of my-go-api (src/main.go and its        *)
(* sibling revisions): the GET /articles handler returnAllArticles, which  *)
(* turns six query parameters into a MongoDB filter and find options, the  *)
(* handlers that create, read, update and delete one article, the start of *)
(* a process with initializeMockData, and the collection they act on.      *)
(*                                                                         *)
(* Text is a sequence of one-character strings, so that parsing and        *)
(* matching are computed character by character as the code's libraries    *)
(* do.  Go's int is modelled as a two's complement integer of IntBits      *)
(* bits: strconv.Atoi clamps to its range and (page - 1) * limit wraps in  *)
(* it.                                                                     *)
(***************************************************************************)
EXTENDS Integers, Sequences, FiniteSets, TLC

VARIABLES store, nextId, req, query, resp, procs, overlapped

vars == <<store, nextId, req, query, resp, procs, overlapped>>

(***************************************************************************)
(* Bounds of the model.                                                    *)
(***************************************************************************)
\* Width of Go's int (64 in the build; scaled down so that TLC can reach
\* the values at which parsing clamps and the multiplication wraps).
IntBits == 5
\* Longest page / limit parameter string that is enumerated.
MaxNumLen == 2
\* Longest order parameter string that is enumerated.
MaxOrderLen == 3
\* Longest title / desc parameter string that is enumerated.
MaxTextLen == 2
\* Most articles the collection holds.
MaxArticles == 2
\* Most ObjectIDs the store generates when processes start and stop.
MaxObjectIds == 22

(***************************************************************************)
(* Fixed-width integers.                                                   *)
(***************************************************************************)
Pow2(n) == 2 ^ n

MaxInt == Pow2(IntBits - 1) - 1

MaxUint == Pow2(IntBits) - 1

\* The two's complement value an int holds after an arithmetic result x.
Wrap(x) == ((x + Pow2(IntBits - 1)) % Pow2(IntBits)) - Pow2(IntBits - 1)

(***************************************************************************)
(* Characters and strings.                                                 *)
(***************************************************************************)
Digits == {"0", "1", "2", "3", "4", "5", "6", "7", "8", "9"}

DigitVal == [c \in Digits |->
               CASE c = "0" -> 0 [] c = "1" -> 1 [] c = "2" -> 2 [] c = "3" -> 3
                 [] c = "4" -> 4 [] c = "5" -> 5 [] c = "6" -> 6 [] c = "7" -> 7
                 [] c = "8" -> 8 [] c = "9" -> 9]

\* The characters number-like parameters are drawn from.
NumAlphabet == {"-", "+", "0", "1", "2", "9", "a"}

\* The characters text parameters and article fields are drawn from.
TextAlphabet == {"G", "g", "o", ".", "("}

\* All strings over alphabet A of length at most n.
Strings(A, n) == UNION {[1..k -> A] : k \in 0..n}

Empty == <<>>

(***************************************************************************)
(* strconv.Atoi, as called with the error discarded.                       *)
(***************************************************************************)
\* strconv.ParseUint's digit loop from position i with accumulator n: a
\* character that is no digit is a syntax error with value 0; an overflow of
\* the unsigned range is a range error with the largest value, reported at
\* the digit that overflows, before any later character is looked at.
RECURSIVE ParseUintFrom(_, _, _)
ParseUintFrom(s, i, n) ==
  IF i > Len(s) THEN [val |-> n, err |-> "nil"]
  ELSE IF s[i] \notin Digits THEN [val |-> 0, err |-> "syntax"]
  ELSE IF n >= (MaxUint \div 10) + 1 THEN [val |-> MaxUint, err |-> "range"]
  ELSE LET n1 == n * 10 + DigitVal[s[i]]
       IN  IF n1 > MaxUint THEN [val |-> MaxUint, err |-> "range"]
           ELSE ParseUintFrom(s, i + 1, n1)

ParseUint(s) ==
  IF s = Empty THEN [val |-> 0, err |-> "syntax"] ELSE ParseUintFrom(s, 1, 0)

\* strconv.ParseInt(s, 10, 0): an optional sign, then ParseUint; a magnitude
\* outside the signed range is a range error whose value is the nearest
\* bound of the range.
ParseInt(s) ==
  IF s = Empty THEN [val |-> 0, err |-> "syntax"]
  ELSE LET neg  == s[1] = "-"
           rest == IF s[1] \in {"+", "-"} THEN Tail(s) ELSE s
           u    == ParseUint(rest)
           cut  == Pow2(IntBits - 1)
       IN  IF u.err = "syntax" THEN [val |-> 0, err |-> "syntax"]
           ELSE IF ~neg /\ u.val >= cut THEN [val |-> cut - 1, err |-> "range"]
           ELSE IF neg /\ u.val > cut THEN [val |-> -cut, err |-> "range"]
           ELSE [val |-> IF neg THEN -u.val ELSE u.val, err |-> "nil"]

\* strconv.Atoi: its fast path for short strings returns what ParseInt does.
Atoi(s) == ParseInt(s)

(***************************************************************************)
(* Articles and the requests that carry them.                              *)
(***************************************************************************)
\* The title and desc values articles are created with.
ArticleTitles == {<<"G", "o">>, <<"g", ".">>}

ArticleDescs == {<<"o">>, <<"G">>}

ArticleContents == {<<"o">>}

(***************************************************************************)
(* ObjectIDs and their hex form (primitive.ObjectID).                      *)
(***************************************************************************)
\* Length of the hex form of an ObjectID.
HexLen == 24

HexChars == <<"0", "1", "2", "3", "4", "5", "6", "7", "8", "9",
              "a", "b", "c", "d", "e", "f">>

\* The hex digits ObjectIDFromHex accepts, in either case, with their values.
HexVal(c) ==
  CASE c \in Digits -> DigitVal[c]
    [] c \in {"a", "A"} -> 10 [] c \in {"b", "B"} -> 11 [] c \in {"c", "C"} -> 12
    [] c \in {"d", "D"} -> 13 [] c \in {"e", "E"} -> 14 [] c \in {"f", "F"} -> 15
    [] OTHER -> -1

\* ObjectID.Hex(): the n-th ObjectID the driver generates, as 24 lower-case
\* hex digits (the ids of the model stay below 16^4).
HexOf(n) ==
  [i \in 1..HexLen |->
     IF i <= HexLen - 4 THEN "0"
     ELSE HexChars[((n \div (16 ^ (HexLen - i))) % 16) + 1]]

\* The number a string of hex digits denotes.
RECURSIVE HexValue(_)
HexValue(s) ==
  IF s = Empty THEN 0
  ELSE 16 * HexValue(SubSeq(s, 1, Len(s) - 1)) + HexVal(s[Len(s)])

\* primitive.ObjectIDFromHex: an error unless s is 24 hex digits.
ObjectIDFromHex(s) ==
  IF Len(s) # HexLen \/ \E i \in 1..Len(s) : HexVal(s[i]) < 0
    THEN [err |-> TRUE, oid |-> 0]
    ELSE [err |-> FALSE, oid |-> HexValue(s)]

\* The _id a client may put in a request body (empty when absent): a string
\* that reads like the hex form of an ObjectID.
ClientIds == {HexOf(1)}

\* A decoded request body: a field missing from the JSON is the empty string.
Bodies == [id : ClientIds \cup {Empty}, title : ArticleTitles,
           desc : ArticleDescs, content : ArticleContents]

\* The bodies PUT /article/{id} is called with: with and without _id, title
\* and content.
UpdateBodies == [id : ClientIds \cup {Empty}, title : {<<"G", "o">>, Empty},
                 desc : {<<"o">>}, content : {Empty}]

\* The {id} of a request path: the hex forms of two ObjectIDs, and a string
\* that is none.
PathIds == {HexOf(1), HexOf(2), <<"x">>}

\* The query parameters of GET /articles; a missing parameter is the empty
\* string (url.Values.Get).  sort is only tested for emptiness and then used
\* as a field name, so it is kept as an atom.
Params(titles, descs, sorts, orders, pages, limits) ==
  [title : titles, desc : descs, sort : sorts, order : orders,
   page : pages, limit : limits]

NoParams == [title |-> Empty, desc |-> Empty, sort |-> "", order |-> Empty,
             page |-> Empty, limit |-> Empty]

(***************************************************************************)
(* returnAllArticles: from the parameters to the arguments of Find.        *)
(***************************************************************************)
DefaultLimit == 10

\* page, _ := strconv.Atoi(pageStr); if page <= 0 { page = 1 }
Page(p) == LET page == Atoi(p.page).val IN IF page <= 0 THEN 1 ELSE page

\* limit, _ := strconv.Atoi(limitStr); if limit <= 0 { limit = 10 }
Limit(p) ==
  LET limit == Atoi(p.limit).val IN IF limit <= 0 THEN DefaultLimit ELSE limit

\* skip := (page - 1) * limit, in Go's int.
Skip(p) == Wrap((Page(p) - 1) * Limit(p))

\* A mutant of Filter: the desc predicate is dropped when title is given.
FilterTitleOnly(p) ==
  IF p.title # Empty
    THEN [k \in {"title"} |-> [regex |-> p.title, options |-> "i"]]
    ELSE [k \in {f \in {"desc"} : p.desc # Empty} |->
            [regex |-> p.desc, options |-> "i"]]

\* filter := bson.M{}, with a $regex entry for each non-empty parameter.
Filter(p) ==
  [k \in {f \in {"title", "desc"} : p[f] # Empty} |->
     [regex |-> p[k], options |-> "i"]]

\* A mutant of Order: the order parameter is compared as a string, so only
\* "-1" itself is descending.
OrderExactString(p) == IF p.order = <<"-", "1">> THEN -1 ELSE 1

\* order, _ := strconv.Atoi(sortOrder); if order != 1 && order != -1 { order = 1 }
Order(p) ==
  LET order == Atoi(p.order).val
  IN  IF order # 1 /\ order # -1 THEN 1 ELSE order

\* A mutant of SortOptions: without a sort parameter the articles are sorted
\* by title, in the direction order asks for.
SortOptionsDefaultKey(p) ==
  <<[key |-> IF p.sort # "" THEN p.sort ELSE "title", order |-> Order(p)]>>

\* The bson.D handed to SetSort, or the empty sequence when SetSort is not
\* called.
SortOptions(p) ==
  IF p.sort # "" THEN <<[key |-> p.sort, order |-> Order(p)]>> ELSE <<>>

\* The handler's locals when it calls collection.Find: page, and the filter,
\* sort, skip and limit that Find receives.
BuildQuery(p) ==
  [page |-> Page(p), limit |-> Limit(p), skip |-> Skip(p),
   filter |-> Filter(p), sort |-> SortOptions(p)]

(***************************************************************************)
(* The collection: what Find does with the filter and the options.         *)
(***************************************************************************)
\* Case folding under the regex option "i".
Fold(c) == IF c = "G" THEN "g" ELSE c

\* Byte values, which order strings in a sort.
CharCode(c) ==
  CASE c = "(" -> 40 [] c = "." -> 46 [] c = "G" -> 71 [] c = "g" -> 103
    [] c = "o" -> 111 [] OTHER -> 0

\* A pattern compiles unless a group is left open: over TextAlphabet, which
\* has no ")", every "(" is one.
RegexValid(pat) == \A i \in 1..Len(pat) : pat[i] # "("

\* The pattern matches text t at offset off: "." stands for any character,
\* every other character for itself in either case.
MatchesAt(pat, t, off) ==
  \A j \in 1..Len(pat) : pat[j] = "." \/ Fold(pat[j]) = Fold(t[off + j])

\* {"$regex": pat, "$options": "i"} on a field value t: an unanchored search.
RegexMatch(pat, t) ==
  /\ RegexValid(pat)
  /\ \E off \in 0..(Len(t) - Len(pat)) : MatchesAt(pat, t, off)

\* A document satisfies a filter when it satisfies the entry of every field
\* the filter names.
FilterMatches(filter, doc) ==
  \A k \in DOMAIN filter : RegexMatch(filter[k].regex, doc[k])

\* Strict order of two strings by bytes.
RECURSIVE LexLess(_, _)
LexLess(a, b) ==
  IF b = Empty THEN FALSE
  ELSE IF a = Empty THEN TRUE
  ELSE IF CharCode(Head(a)) # CharCode(Head(b))
         THEN CharCode(Head(a)) < CharCode(Head(b))
  ELSE LexLess(Tail(a), Tail(b))

\* Document a goes strictly before b under sort key srt.
Before(a, b, srt) ==
  IF srt.order = 1 THEN LexLess(a[srt.key], b[srt.key])
  ELSE LexLess(b[srt.key], a[srt.key])

\* docs ordered by srt, documents that compare equal kept in natural order.
RECURSIVE InsertDoc(_, _, _)
InsertDoc(sorted, d, srt) ==
  IF sorted = <<>> THEN <<d>>
  ELSE IF Before(d, Head(sorted), srt) THEN <<d>> \o sorted
  ELSE <<Head(sorted)>> \o InsertDoc(Tail(sorted), d, srt)

RECURSIVE SortDocs(_, _)
SortDocs(docs, srt) ==
  IF docs = <<>> THEN <<>>
  ELSE InsertDoc(SortDocs(SubSeq(docs, 1, Len(docs) - 1), srt),
                 docs[Len(docs)], srt)

\* The documents of coll that satisfy filter, in the order the options ask
\* for: natural order when no sort is set.
Ordered(coll, filter, sort) ==
  LET matched == SelectSeq(coll, LAMBDA d : FilterMatches(filter, d))
  IN  IF sort = <<>> THEN matched ELSE SortDocs(matched, sort[1])

Min(a, b) == IF a < b THEN a ELSE b

\* A filter with a pattern that does not compile, or a negative skip, is
\* refused by the server and Find returns the error.
FindFails(filter, skip) ==
  \/ \E k \in DOMAIN filter : ~RegexValid(filter[k].regex)
  \/ skip < 0

\* collection.Find(ctx, filter, options): the error, or the ordered matches
\* after skip of them, at most limit many.
Find(coll, filter, sort, skip, limit) ==
  IF FindFails(filter, skip) THEN [err |-> TRUE, docs |-> <<>>]
  ELSE LET all == Ordered(coll, filter, sort)
       IN  [err |-> FALSE,
            docs |-> SubSeq(all, skip + 1, Min(Len(all), skip + limit))]

(***************************************************************************)
(* State and requests.                                                     *)
(*   store   the documents of the collection, in natural order             *)
(*   nextId  the next ObjectID the driver generates                        *)
(*   req     the request being handled, or handled last                    *)
(*   query   the locals of returnAllArticles when it calls Find            *)
(*   resp    the response written                                          *)
(***************************************************************************)
\* A document's _id: an ObjectID generated by the driver (oid > 0), or the
\* string the client put in the body.
Oid(n) == [oid |-> n, str |-> Empty]

StrId(s) == [oid |-> 0, str |-> s]

Doc(i, b) == [id |-> i, title |-> b.title, desc |-> b.desc, content |-> b.content]

NoBody == [id |-> Empty, title |-> Empty, desc |-> Empty, content |-> Empty]

NoReq == [op |-> "none", id |-> Empty, params |-> NoParams, body |-> NoBody]

NoQuery == [page |-> 0, limit |-> 0, skip |-> 0, filter |-> <<>>, sort |-> <<>>]

NoResp == [status |-> 0, articles |-> <<>>, message |-> ""]

\* GET /articles with parameters p.
ReturnAllArticles(p) ==
  LET q == BuildQuery(p)
      r == Find(store, q.filter, q.sort, q.skip, q.limit)
  IN  /\ req' = [op |-> "GET /articles", id |-> Empty, params |-> p, body |-> NoBody]
      /\ query' = q
      /\ resp' = IF r.err
                   THEN [status |-> 500, articles |-> <<>>,
                         message |-> "Error fetching articles"]
                   ELSE [status |-> 200, articles |-> r.docs, message |-> ""]
      /\ UNCHANGED <<store, nextId>>

\* POST /article with decoded body b: InsertOne stores it under the body's
\* _id when it has one and fails when that _id is taken, and under a fresh
\* ObjectID otherwise; the response encodes the article as decoded.
CreateNewArticle(b) ==
  /\ Len(store) < MaxArticles
  /\ req' = [op |-> "POST /article", id |-> Empty, params |-> NoParams, body |-> b]
  /\ query' = NoQuery
  /\ IF b.id # Empty /\ \E i \in 1..Len(store) : store[i].id = StrId(b.id)
       THEN /\ resp' = [status |-> 500, articles |-> <<>>,
                        message |-> "Error creating article"]
            /\ UNCHANGED <<store, nextId>>
       ELSE /\ store' = Append(store,
                               Doc(IF b.id = Empty THEN Oid(nextId) ELSE StrId(b.id), b))
            /\ nextId' = IF b.id = Empty THEN nextId + 1 ELSE nextId
            /\ resp' = [status |-> 201, articles |-> <<Doc(StrId(b.id), b)>>,
                        message |-> ""]

(***************************************************************************)
(* The handlers of one article (src/unnamed/part_000).                     *)
(***************************************************************************)
\* The positions of the documents whose _id is the ObjectID oid: a filter
\* {"_id": ObjectID} never matches a document whose _id is a string.
Matching(oid) == {i \in 1..Len(store) : store[i].id = Oid(oid)}

\* The sequence without its element at position i.
Without(seq, i) == SubSeq(seq, 1, i - 1) \o SubSeq(seq, i + 1, Len(seq))

PathReq(op, pid, b) == [op |-> op, id |-> pid, params |-> NoParams, body |-> b]

Message(status, text) == [status |-> status, articles |-> <<>>, message |-> text]

\* GET /article/{id}.
ReturnSingleArticle(pid) ==
  LET id == ObjectIDFromHex(pid)
  IN  /\ req' = PathReq("GET /article/{id}", pid, NoBody)
      /\ query' = NoQuery
      /\ resp' = IF id.err THEN Message(400, "Invalid ID format")
                 ELSE IF Matching(id.oid) = {} THEN Message(404, "Article not found")
                 ELSE [status |-> 200,
                       articles |-> <<store[CHOOSE i \in Matching(id.oid) : TRUE]>>,
                       message |-> ""]
      /\ UNCHANGED <<store, nextId>>

\* DELETE /article/{id}.
DeleteArticle(pid) ==
  LET id == ObjectIDFromHex(pid)
  IN  /\ req' = PathReq("DELETE /article/{id}", pid, NoBody)
      /\ query' = NoQuery
      /\ IF id.err
           THEN /\ resp' = Message(400, "Invalid ObjectID format")
                /\ UNCHANGED store
           ELSE IF Matching(id.oid) = {}
             THEN /\ resp' = Message(404, "Article not found")
                  /\ UNCHANGED store
             ELSE /\ resp' = Message(200, "Article deleted successfully")
                  /\ store' = Without(store, CHOOSE i \in Matching(id.oid) : TRUE)
      /\ UNCHANGED nextId

\* A mutant of UpdateArticle: the update is an upsert, so an id that matches
\* nothing adds the article.
UpdateArticleUpsert(pid, b) ==
  LET id == ObjectIDFromHex(pid)
  IN  /\ req' = PathReq("PUT /article/{id}", pid, b)
      /\ query' = NoQuery
      /\ IF id.err
           THEN /\ resp' = Message(400, "Invalid ID format")
                /\ UNCHANGED store
           ELSE IF Matching(id.oid) = {}
             THEN /\ resp' = Message(200, "Article updated successfully")
                  /\ store' = Append(store, Doc(Oid(id.oid), b))
             ELSE IF b.id # Empty
               THEN /\ resp' = Message(500, "Error updating article")
                    /\ UNCHANGED store
               ELSE /\ resp' = Message(200, "Article updated successfully")
                    /\ store' = [store EXCEPT
                                   ![CHOOSE i \in Matching(id.oid) : TRUE] =
                                     Doc(Oid(id.oid), b)]
      /\ UNCHANGED nextId

\* PUT /article/{id} with decoded body b: UpdateOne with {"$set": article}.
\* The article's ID is omitted from $set when empty; when the body has an
\* _id, $set carries that string, which is not the ObjectID of the matched
\* document, and the server refuses to change _id.  An update that matches
\* nothing is no error.
UpdateArticle(pid, b) ==
  LET id == ObjectIDFromHex(pid)
  IN  /\ req' = PathReq("PUT /article/{id}", pid, b)
      /\ query' = NoQuery
      /\ IF id.err
           THEN /\ resp' = Message(400, "Invalid ID format")
                /\ UNCHANGED store
           ELSE IF Matching(id.oid) = {}
             THEN /\ resp' = Message(200, "Article updated successfully")
                  /\ UNCHANGED store
             ELSE IF b.id # Empty
               THEN /\ resp' = Message(500, "Error updating article")
                    /\ UNCHANGED store
               ELSE /\ resp' = Message(200, "Article updated successfully")
                    /\ store' = [store EXCEPT
                                   ![CHOOSE i \in Matching(id.oid) : TRUE] =
                                     Doc(Oid(id.oid), b)]
      /\ UNCHANGED nextId

(***************************************************************************)
(* The service: articles are created and listed in any order.              *)
(***************************************************************************)
\* The parameter values the listing requests of the service are drawn from.
RequestParams ==
  Params({Empty, <<"g", ".">>, <<"(">>}, {Empty, <<"o">>},
         {"", "title"}, {Empty, <<"-", "1">>}, {Empty}, {Empty})
  \cup
  Params({Empty, <<"g", ".">>}, {Empty}, {""}, {Empty},
         {Empty, <<"2">>, <<"9">>}, {Empty, <<"1">>, <<"4">>})

\* One process is up and serving; no other is started.
OneServing == <<"serving", "down">>

Init ==
  /\ store = <<>>
  /\ nextId = 1
  /\ req = NoReq
  /\ query = NoQuery
  /\ resp = NoResp
  /\ procs = OneServing
  /\ overlapped = FALSE

Next ==
  \/ \E b \in Bodies : CreateNewArticle(b) /\ UNCHANGED <<procs, overlapped>>
  \/ \E p \in RequestParams :
       ReturnAllArticles(p) /\ UNCHANGED <<procs, overlapped>>

Spec == Init /\ [][Next]_vars

(***************************************************************************)
(* The service of one article: articles are created, read, updated and     *)
(* deleted in any order.  At most MaxArticles + 1 ObjectIDs are generated. *)
(***************************************************************************)
NextCrud ==
  \/ \E b \in Bodies :
       /\ nextId <= MaxArticles + 1
       /\ CreateNewArticle(b)
       /\ UNCHANGED <<procs, overlapped>>
  \/ \E pid \in PathIds :
       ReturnSingleArticle(pid) /\ UNCHANGED <<procs, overlapped>>
  \/ \E pid \in PathIds : DeleteArticle(pid) /\ UNCHANGED <<procs, overlapped>>
  \/ \E pid \in PathIds, b \in UpdateBodies :
       UpdateArticle(pid, b) /\ UNCHANGED <<procs, overlapped>>

SpecCrud == Init /\ [][NextCrud]_vars

(***************************************************************************)
(* Starting and stopping (src/main.go): main connects, runs                *)
(* initializeMockData and serves.  Two processes share the collection; a   *)
(* process is "down", "inserting" (its CountDocuments answered 0 and its   *)
(* InsertMany is still to come) or "serving".  CountDocuments and          *)
(* InsertMany are two separate operations on the store, so steps of the    *)
(* other process and of its clients can fall between them.  overlapped     *)
(* records that two processes have been up at once since all were down.    *)
(***************************************************************************)
\* mockArticles; each text is kept as one unit, no request looks inside it.
MockArticles ==
  << [id |-> Empty, title |-> <<"The Rise of AI">>,
      desc |-> <<"Exploring the advancements in Artificial Intelligence.">>,
      content |-> <<"Artificial Intelligence (AI) has made significant strides in recent years, impacting industries and everyday life.">>],
     [id |-> Empty, title |-> <<"Understanding Blockchain Technology">>,
      desc |-> <<"A deep dive into how blockchain works.">>,
      content |-> <<"Blockchain technology underpins cryptocurrencies like Bitcoin and has potential applications across various sectors.">>],
     [id |-> Empty, title |-> <<"Climate Change: The Facts">>,
      desc |-> <<"Discussing the realities of climate change and its impacts.">>,
      content |-> <<"Climate change poses a significant threat to our planet, with rising temperatures and extreme weather events becoming more common.">>],
     [id |-> Empty, title |-> <<"Health Benefits of Meditation">>,
      desc |-> <<"The positive effects of meditation on mental health.">>,
      content |-> <<"Meditation has been shown to reduce stress, enhance concentration, and promote emotional health.">>],
     [id |-> Empty, title |-> <<"Top 10 Programming Languages in 2024">>,
      desc |-> <<"A look at the most popular programming languages this year.">>,
      content |-> <<"In 2024, languages like Python, JavaScript, and Go continue to dominate the programming landscape.">>],
     [id |-> Empty, title |-> <<"Traveling the World on a Budget">>,
      desc |-> <<"Tips and tricks for affordable travel.">>,
      content |-> <<"Traveling doesn't have to break the bank. Here are some tips to make the most of your adventures without overspending.">>],
     [id |-> Empty, title |-> <<"The Future of Electric Vehicles">>,
      desc |-> <<"How electric vehicles are shaping the future of transportation.">>,
      content |-> <<"Electric vehicles (EVs) are becoming more popular due to advancements in technology and growing environmental concerns.">>],
     [id |-> Empty, title |-> <<"Healthy Eating: Myths vs. Facts">>,
      desc |-> <<"Debunking common misconceptions about healthy eating.">>,
      content |-> <<"Many myths surround nutrition. It's essential to distinguish between fact and fiction to maintain a balanced diet.">>],
     [id |-> Empty, title |-> <<"The Impact of Social Media on Society">>,
      desc |-> <<"Analyzing the effects of social media on communication and relationships.">>,
      content |-> <<"Social media has transformed how we connect, but it also brings challenges related to mental health and privacy.">>],
     [id |-> Empty, title |-> <<"Learning a New Language: Tips for Success">>,
      desc |-> <<"Effective strategies for mastering a new language.">>,
      content |-> <<"Learning a new language can be daunting, but with the right techniques, anyone can achieve fluency.">>] >>

MockCount == Len(MockArticles)

\* The documents InsertMany stores: the Article values have no ID, so the
\* driver gives each a fresh ObjectID, the first being first.
MockDocs(first) ==
  [k \in 1..MockCount |-> Doc(Oid(first + k - 1), MockArticles[k])]

Procs == 1..2

AllDown == [i \in Procs |-> "down"]

\* A mutant of InsertsMockData: the mock articles are inserted whatever the
\* count.
InsertsMockDataAlways(count) == TRUE

\* if count == 0
InsertsMockData(count) == count = 0

\* Process i starts: main connects and initializeMockData counts the
\* documents of the collection.
CountDocuments(i) ==
  /\ procs[i] = "down"
  /\ procs' = [procs EXCEPT ![i] = IF InsertsMockData(Len(store))
                                     THEN "inserting" ELSE "serving"]
  /\ overlapped' = (overlapped \/ \E j \in Procs \ {i} : procs[j] # "down")
  /\ UNCHANGED <<store, nextId, req, query, resp>>

\* Process i, having counted 0, inserts the mock articles and goes on to
\* handleRequests.
InsertMany(i) ==
  /\ procs[i] = "inserting"
  /\ nextId + MockCount - 1 <= MaxObjectIds
  /\ store' = store \o MockDocs(nextId)
  /\ nextId' = nextId + MockCount
  /\ procs' = [procs EXCEPT ![i] = "serving"]
  /\ UNCHANGED <<req, query, resp, overlapped>>

\* Process i ends (it is stopped, or log.Fatal ends it).
Exit(i) ==
  /\ procs[i] # "down"
  /\ procs' = [procs EXCEPT ![i] = "down"]
  /\ overlapped' = (overlapped /\ \E j \in Procs \ {i} : procs[j] # "down")
  /\ UNCHANGED <<store, nextId, req, query, resp>>

\* The bodies clients post while processes start and stop.
StartBodies == {b \in Bodies : b.id = Empty /\ b.title = <<"G", "o">> /\ b.desc = <<"o">>}

InitStart ==
  /\ store = <<>>
  /\ nextId = 1
  /\ req = NoReq
  /\ query = NoQuery
  /\ resp = NoResp
  /\ procs = AllDown
  /\ overlapped = FALSE

\* Processes start and stop; a serving process handles POST /article, and
\* DELETE /article/{id} (the handler of src/unnamed/part_000, on the same
\* collection) of the oldest stored article.
NextStart ==
  \/ \E i \in Procs : CountDocuments(i)
  \/ \E i \in Procs : InsertMany(i)
  \/ \E i \in Procs : Exit(i)
  \/ \E b \in StartBodies :
       /\ \E i \in Procs : procs[i] = "serving"
       /\ nextId <= MaxObjectIds
       /\ CreateNewArticle(b)
       /\ UNCHANGED <<procs, overlapped>>
  \/ /\ \E i \in Procs : procs[i] = "serving"
     /\ store # <<>>
     /\ DeleteArticle(HexOf(store[1].id.oid))
     /\ UNCHANGED <<procs, overlapped>>

SpecStart == InitStart /\ [][NextStart]_vars

(***************************************************************************)
(* The query translation alone: one listing request, its parameters drawn  *)
(* from all strings up to the bounds, against a fixed collection.          *)
(***************************************************************************)
FixtureStore ==
  << [id |-> Oid(1), title |-> <<"G", "o">>, desc |-> <<"o">>, content |-> <<"o">>],
     [id |-> Oid(2), title |-> <<"g", ".">>, desc |-> <<"G">>, content |-> <<"o">>],
     [id |-> Oid(3), title |-> <<"G", "o">>, desc |-> <<"G">>, content |-> <<"o">>] >>

\* page and limit range over every string; order over every string beside a
\* sort; title and desc over every string.
QueryInputs ==
  Params({Empty}, {Empty}, {""}, {Empty},
         Strings(NumAlphabet, MaxNumLen), Strings(NumAlphabet, MaxNumLen))
  \cup
  Params({Empty, <<"g">>}, {Empty}, {"", "title", "desc"},
         Strings(NumAlphabet, MaxOrderLen),
         {Empty, <<"2">>}, {Empty, <<"1">>})
  \cup
  Params(Strings(TextAlphabet, MaxTextLen), Strings(TextAlphabet, MaxTextLen),
         {"", "title"}, {Empty}, {Empty}, {Empty})

InitQuery ==
  /\ store = FixtureStore
  /\ nextId = Len(FixtureStore) + 1
  /\ req \in {[op |-> "GET /articles", id |-> Empty, params |-> p,
               body |-> NoBody] :
                p \in QueryInputs}
  /\ query = NoQuery
  /\ resp = NoResp
  /\ procs = OneServing
  /\ overlapped = FALSE

\* The pending request is handled.
HandleQuery ==
  /\ resp = NoResp
  /\ ReturnAllArticles(req.params)
  /\ UNCHANGED <<procs, overlapped>>

NextQuery == HandleQuery

SpecQuery == InitQuery /\ [][NextQuery]_vars

(***************************************************************************)
(* What the claims speak of, stated apart from the handler's definitions.  *)
(***************************************************************************)
\* A listing request has been answered.
Handled == req.op = "GET /articles" /\ resp.status # 0

\* s is a decimal numeral: an optional sign and one digit or more.
IsDecimal(s) ==
  LET d == IF s # Empty /\ s[1] \in {"+", "-"} THEN Tail(s) ELSE s
  IN  d # Empty /\ \A i \in 1..Len(d) : d[i] \in Digits

\* The number a string of digits denotes.
RECURSIVE DigitsValue(_)
DigitsValue(d) ==
  IF d = Empty THEN 0
  ELSE 10 * DigitsValue(SubSeq(d, 1, Len(d) - 1)) + DigitVal[d[Len(d)]]

\* The integer a decimal numeral denotes.
DecimalValue(s) ==
  IF s[1] = "-" THEN -DigitsValue(Tail(s))
  ELSE IF s[1] = "+" THEN DigitsValue(Tail(s))
  ELSE DigitsValue(s)

\* The parsed positive integer when s denotes one that an int can hold, and
\* the default dflt for every other string.
PositiveOr(s, dflt) ==
  IF IsDecimal(s) /\ DecimalValue(s) > 0 /\ DecimalValue(s) <= MaxInt
    THEN DecimalValue(s) ELSE dflt

\* Text t contains s as a literal substring, ignoring case.
ContainsFold(t, s) ==
  \E off \in 0..(Len(t) - Len(s)) :
    \A j \in 1..Len(s) : Fold(s[j]) = Fold(t[off + j])

\* The documents of a sequence, as a set.
Range(seq) == {seq[i] : i \in 1..Len(seq)}

\* C1: the page used is 1 when the page parameter is absent, empty, zero,
\* negative, not a number or too large for an int, and the parsed positive
\* integer otherwise.
C1_PageCoercion == Handled => query.page = PositiveOr(req.params.page, 1)

\* C2: the limit handed to the store is 10 when the limit parameter is
\* absent, empty, zero, negative, not a number or too large for an int, and
\* the parsed positive integer otherwise.
C2_LimitCoercion ==
  Handled => query.limit = PositiveOr(req.params.limit, DefaultLimit)

\* C3: the skip handed to the store is the product (page - 1) * limit of the
\* coerced page and the coerced limit.
C3_SkipIsProduct == Handled => query.skip = (query.page - 1) * query.limit

\* C4: whatever the page and limit strings, the skip handed to the store is
\* not negative, the limit is positive, and the multiplication has not
\* left the range of an int.
C4_SkipLimitInRange ==
  Handled => /\ query.skip >= 0
             /\ query.limit >= 1
             /\ (query.page - 1) * query.limit <= MaxInt

\* C5, as claimed: beside a sort, the direction is descending only for the
\* order string "-1" itself and ascending for every other string.
C5_DescendingOnlyForMinusOneString ==
  (Handled /\ req.params.sort # "") =>
    query.sort = <<[key |-> req.params.sort,
                   order |-> IF req.params.order = <<"-", "1">> THEN -1 ELSE 1]>>

\* C5, amended: beside a sort, the direction is descending exactly when the
\* order parameter is a decimal numeral denoting -1 ("-1", "-01", ...), and
\* ascending for every other string.
C5_DescendingIffDenotesMinusOne ==
  (Handled /\ req.params.sort # "") =>
    query.sort = <<[key |-> req.params.sort,
                   order |-> IF IsDecimal(req.params.order)
                                  /\ DecimalValue(req.params.order) = -1
                               THEN -1 ELSE 1]>>

\* A sorted listing whose order parameter "-01" gave a descending sort.
C5_Witness ==
  /\ Handled
  /\ req.params.sort = "title"
  /\ req.params.order = <<"-", "0", "1">>
  /\ query.sort = <<[key |-> "title", order |-> -1]>>

\* C6: without a sort parameter no sort is set, and the filter, sort, skip
\* and limit are those of the same request without its order parameter,
\* hence the same for any two values of order.
C6_OrderIgnoredWithoutSort ==
  (Handled /\ req.params.sort = "") =>
    LET q0 == BuildQuery([req.params EXCEPT !.order = Empty])
    IN  /\ query.sort = <<>>
        /\ query.filter = q0.filter
        /\ query.skip = q0.skip
        /\ query.limit = q0.limit

\* A listing without sort whose order parameter was "-1".
C6_Witness ==
  /\ Handled
  /\ req.params.sort = ""
  /\ req.params.order = <<"-", "1">>
  /\ query.sort = <<>>
  /\ resp.status = 200

\* C7: the filter has an entry for title, and for desc, exactly when that
\* parameter is not empty, and an entry matches an article exactly when the
\* field contains the parameter as a literal substring, ignoring case.
C7_LiteralSubstringFilter ==
  Handled =>
    /\ DOMAIN query.filter = {k \in {"title", "desc"} : req.params[k] # Empty}
    /\ \A k \in DOMAIN query.filter : \A d \in Range(store) :
         RegexMatch(query.filter[k].regex, d[k])
           <=> ContainsFold(d[k], req.params[k])

\* C8: no value of the parameters makes the listing answer an error (the
\* store of the model never fails of its own).
C8_NeverRejects == Handled => resp.status = 200

\* The articles of the store that satisfy both predicates of the request.
BothMatch ==
  {d \in Range(store) : /\ RegexMatch(req.params.title, d.title)
                        /\ RegexMatch(req.params.desc, d.desc)}

C10_PthPageOfLimit ==
  (Handled /\ \A k \in DOMAIN query.filter : RegexValid(query.filter[k].regex)) =>
    LET all == Ordered(store, query.filter, query.sort)
        p   == query.page
        l   == query.limit
    IN  /\ resp.status = 200
        /\ Len(resp.articles) <= l
        /\ resp.articles = SubSeq(all, (p - 1) * l + 1, Min(Len(all), p * l))

(***************************************************************************)
(* What the claims on single articles speak of.                            *)
(***************************************************************************)
\* The "_id" member of an article's JSON form: the hex form of an ObjectID,
\* the string itself for a string _id, and no member when empty.
JsonId(a) == IF a.id.oid > 0 THEN HexOf(a.id.oid) ELSE a.id.str

\* A path id is well-formed: 24 hex digits.
WellFormed(pid) ==
  /\ Len(pid) = HexLen
  /\ \A i \in 1..Len(pid) :
       pid[i] \in Digits \cup {"a", "b", "c", "d", "e", "f",
                               "A", "B", "C", "D", "E", "F"}

\* The positions of the stored articles whose identifier is pid.
Named(pid) == {i \in 1..Len(store) : JsonId(store[i]) = pid}

\* C11 (assignment and presence): a created article is stored under an
\* identifier the store assigned, not one the request chose, and the bodies
\* answered by POST /article and GET /article/{id} carry the identifier.
C11_IdAssignedAndPresent ==
  /\ (req.op = "POST /article" /\ resp.status = 201) =>
       /\ req.body.id = Empty
       /\ store[Len(store)].id.oid > 0
       /\ JsonId(resp.articles[1]) = JsonId(store[Len(store)])
  /\ (req.op = "GET /article/{id}" /\ resp.status = 200) =>
       JsonId(resp.articles[1]) = req.id

\* C12: PUT /article/{id} on an existing article leaves the store as it was
\* but for that article, whose title, desc and content are those of the
\* body and whose identifier is kept.
C12_PutReplacesWholesale ==
  [][(req'.op = "PUT /article/{id}" /\ Named(req'.id) # {}) =>
       \E i \in Named(req'.id) :
         store' = [store EXCEPT ![i] =
                     [id |-> store[i].id, title |-> req'.body.title,
                      desc |-> req'.body.desc, content |-> req'.body.content]]
    ]_vars

\* C13: DELETE /article/{id} answers 400 and keeps the store for a malformed
\* id, answers 404 and keeps the store for a well-formed id of no stored
\* article, and answers 200 and removes exactly the article of that id
\* otherwise; a later GET or DELETE of a deleted id answers 404.
C13_DeleteRemovesExactlyThat ==
  [][/\ (req'.op = "DELETE /article/{id}") =>
          IF ~WellFormed(req'.id)
            THEN resp'.status = 400 /\ store' = store
          ELSE IF Named(req'.id) = {}
            THEN resp'.status = 404 /\ store' = store
          ELSE /\ resp'.status = 200
               /\ \E i \in Named(req'.id) : store' = Without(store, i)
     /\ (/\ req'.op \in {"GET /article/{id}", "DELETE /article/{id}"}
         /\ WellFormed(req'.id)
         /\ \E n \in 1..(nextId - 1) :
              HexOf(n) = req'.id /\ \A i \in 1..Len(store) : store[i].id # Oid(n))
          => resp'.status = 404
    ]_vars

\* C14: PUT /article/{id} keeps the number of articles and their
\* identifiers; for a malformed id it answers 400 and keeps the store; for a
\* well-formed id of no stored article it keeps the store and answers the
\* success message.
C14_PutNeverAddsOrRemoves ==
  [][(req'.op = "PUT /article/{id}") =>
       /\ Len(store') = Len(store)
       /\ \A i \in 1..Len(store) : store'[i].id = store[i].id
       /\ ~WellFormed(req'.id) => (resp'.status = 400 /\ store' = store)
       /\ (WellFormed(req'.id) /\ Named(req'.id) = {}) =>
            /\ store' = store
            /\ resp' = Message(200, "Article updated successfully")
    ]_vars

\* A PUT of a well-formed id that names none of the stored articles was
\* answered with the success message.
C14_Witness ==
  /\ req.op = "PUT /article/{id}"
  /\ WellFormed(req.id)
  /\ store # <<>>
  /\ Named(req.id) = {}
  /\ resp = Message(200, "Article updated successfully")

(***************************************************************************)
(* What the claim on starting speaks of.                                   *)
(***************************************************************************)
\* This step is process i's count of the documents.
Counts(i) == procs[i] = "down" /\ procs'[i] # "down"

\* This step is process i's InsertMany.
Inserts(i) == procs[i] = "inserting" /\ procs'[i] = "serving"

\* C15: while no two processes are up at once, a starting process that
\* finds the collection non-empty leaves it unchanged and goes on to serve,
\* and the mock articles are inserted only into an empty collection, which
\* then holds exactly the ten of them; so between two insertions the
\* collection has been empty.
C15_MockDataOnlyIntoEmpty ==
  [][\A i \in Procs :
       /\ (Counts(i) /\ ~overlapped') =>
            /\ store' = store
            /\ store # <<>> => procs'[i] = "serving"
            /\ store = <<>> => procs'[i] = "inserting"
       /\ (Inserts(i) /\ ~overlapped) =>
            /\ store = <<>>
            /\ Len(store') = MockCount
            /\ \A k \in 1..MockCount :
                 Doc(store'[k].id, MockArticles[k]) = store'[k]
    ]_vars

\* Two processes were up at once, both counted 0 and both inserted: the
\* collection holds the mock articles twice.
C15_Witness ==
  /\ overlapped
  /\ Len(store) = 2 * MockCount
  /\ \A k \in 1..MockCount :
       /\ store[k].title = MockArticles[k].title
       /\ store[MockCount + k].title = MockArticles[k].title

====
